---- MODULE Spec2Model ----
(***************************************************************************)
(* Function.decorate and Function.Decorators (Source/Decorator.js).        *)
(*                                                                         *)
(* Time is discrete.  A timer set with setTimeout(fn, d) at time now is    *)
(* due at now + d; its callback runs when time has reached its due time,   *)
(* timers run in order of due time (ties: in order of creation), and time  *)
(* does not advance past a due timer.  Invocations of decorated callables  *)
(* may happen at any instant, before or after the callbacks due at that    *)
(* instant.  All code runs on one thread: every handler is one step.       *)
(***************************************************************************)
EXTENDS Integers, Sequences, FiniteSets

VARIABLES
    now,         \* the clock
    Collection,  \* Function.Decorators.Collection: name -> factory
    fns,         \* the decorated callables made so far
    insts,       \* the decorator closures made so far (their private state)
    timers,      \* the pending setTimeout timers
    nextTimer,   \* the next timer handle setTimeout returns
    log          \* history: every invocation and every timer callback, in order

vars == <<now, Collection, fns, insts, timers, nextTimer, log>>

---------------------------------------------------------------------------
(* Bounds of the model. *)

MaxTime == 5
MaxCalls == 3
MaxInterval == 2
MaxTypes == 2
MaxStrictCalls == 2
MaxFns == 2
MaxAdds == 3

---------------------------------------------------------------------------
(* Values.  A scalar is [tag, n, s]; tag is what $type answers for it. *)

Num(k) == [tag |-> "number", n |-> k, s |-> ""]
Str(t) == [tag |-> "string", n |-> 0, s |-> t]
Bool(b) == [tag |-> "boolean", n |-> IF b THEN 1 ELSE 0, s |-> ""]
Undefined == [tag |-> "false", n |-> 0, s |-> ""]
NaN == [tag |-> "number", n |-> 0, s |-> "NaN"]

\* The argument that makes the base callable raise.
Boom == Str("boom")

\* $type(x) of MooTools: the type tag of a value (false for undefined).
type(x) == x.tag

(* An argument as a decorator factory receives it: a scalar, or an array of *)
(* scalars (decoration by name hands the factory ONE array, line 51).       *)
P(x) == [isArr |-> FALSE, items |-> <<x>>]
Arr(xs) == [isArr |-> TRUE, items |-> xs]

\* arguments[i] of a factory call; undefined when fewer were passed.
Arg(params, i) == IF i <= Len(params) THEN params[i] ELSE P(Undefined)

\* Each element of a sequence wrapped as a scalar parameter (f(a1, ..., an)).
Spread(xs) == [i \in DOMAIN xs |-> P(xs[i])]

(* JavaScript's ToNumber on a factory argument: a number is itself, an     *)
(* array of one element converts as that element, the empty array is 0,    *)
(* anything else here is NaN.                                              *)
ToNumber(p) ==
    LET x == p.items[1]
    IN  IF p.isArr /\ Len(p.items) = 0 THEN Num(0)
        ELSE IF p.isArr /\ Len(p.items) > 1 THEN NaN
        ELSE IF x.tag = "number" THEN x
        ELSE NaN

\* The delay setTimeout uses for its second argument: NaN and negatives are 0.
Delay(p) ==
    LET v == ToNumber(p)
    IN  IF v = NaN \/ v.n < 0 THEN 0 ELSE v.n

\* JavaScript's truthiness of a factory argument (every array is truthy).
Truthy(p) ==
    LET x == p.items[1]
    IN  p.isArr \/ (x.tag = "boolean" /\ x.n = 1) \/ (x.tag = "string" /\ x.s # "")
                \/ (x.tag = "number" /\ x.n # 0 /\ x # NaN)

(* `$type(x) != t` negated: JavaScript's loose equality of a type tag with  *)
(* the expected type t.  A string t equals the tag when it is the same     *)
(* string; an array t is first joined with ",", so it equals the tag only  *)
(* when it holds exactly that one string; $type's false (undefined) equals *)
(* only the empty string, that is the empty array.                         *)
TypeMatches(x, t) ==
    IF t.isArr
    THEN IF Len(t.items) = 0 THEN type(x) = "false"
         ELSE Len(t.items) = 1 /\ t.items[1].tag = "string" /\ type(x) = t.items[1].s
    ELSE t.items[1].tag = "string" /\ type(x) = t.items[1].s

---------------------------------------------------------------------------
(* The base callable (var method = this), called as method.apply(ctx,     *)
(* args): it returns its first argument, as simpleReturn of the tests      *)
(* does; without arguments it returns a value of its context, as           *)
(* returnContextValue does; it raises on the argument Boom.                *)

Raises(args) == Len(args) > 0 /\ args[1] = Boom

method(ctx, args) ==
    [threw |-> Raises(args),
     value |-> IF Raises(args) THEN Undefined
               ELSE IF Len(args) = 0 THEN Str(ctx)
               ELSE args[1]]

---------------------------------------------------------------------------
(* Decorator closures.  A factory call makes a closure with fresh private  *)
(* state: timer (0 is null), calls, warned.                                *)

Factory(kind, params) ==
    [kind |-> kind, params |-> params, timer |-> 0, calls |-> <<>>, warned |-> FALSE]

(* What one application decorator.apply(this, [method, arguments]) does:   *)
(*   inst   the closure's state afterwards                                 *)
(*   arm    the timers it sets (at most one): delay, captured context/args *)
(*   clear  the handle it passes to clearTimeout (0: none)                 *)
(*   ran    whether it executed the base callable, with xargs under xctx   *)
(*   ret    the value it returns; threw: whether it raised instead         *)
(*   logs   the lines it wrote with Log.logger                             *)
Through(inst, ctx, args) ==
    LET r == method(ctx, args)
    IN  [inst |-> inst, arm |-> <<>>, clear |-> 0, ran |-> TRUE, xargs |-> args,
         xctx |-> ctx, ret |-> r.value, threw |-> r.threw, logs |-> 0]

Nothing(inst) ==
    [inst |-> inst, arm |-> <<>>, clear |-> 0, ran |-> FALSE, xargs |-> <<>>,
     xctx |-> "none", ret |-> Undefined, threw |-> FALSE, logs |-> 0]

Thrown(inst) == [Nothing(inst) EXCEPT !.threw = TRUE]

\* dummyDecorator of the tests: return method.apply(this, args).
dummyDecorator(inst, ctx, args) == Through(inst, ctx, args)

\* multiplierDecorator of the tests: method.apply(this, args) * multiplier.
multiplierDecorator(inst, ctx, args) ==
    LET r == Through(inst, ctx, args)
        m == ToNumber(Arg(inst.params, 1))
    IN  IF r.threw THEN r
        ELSE [r EXCEPT !.ret = IF r.ret.tag = "number" /\ r.ret # NaN /\ m # NaN
                                THEN Num(r.ret.n * m.n) ELSE NaN]

\* strictArguments that checks the number of arguments only.
strictArgumentsCountOnly(inst, ctx, args) ==
    IF Len(inst.params) # Len(args) THEN Thrown(inst) ELSE Through(inst, ctx, args)

\* strictArguments: types = arguments of the factory call.
strictArguments(inst, ctx, args) ==
    LET types == inst.params
    IN  IF Len(types) # Len(args) THEN Thrown(inst)
        ELSE IF \E i \in 1..Len(args) : ~TypeMatches(args[i], types[i]) THEN Thrown(inst)
        ELSE Through(inst, ctx, args)

\* strictReturn that does not look at the result.
strictReturnUnchecked(inst, ctx, args) == Through(inst, ctx, args)

\* strictReturn(type): the base callable runs, then its result is checked.
strictReturn(inst, ctx, args) ==
    LET r == Through(inst, ctx, args)
    IN  IF r.threw THEN r
        ELSE IF ~TypeMatches(r.ret, Arg(inst.params, 1))
             THEN [r EXCEPT !.ret = Undefined, !.threw = TRUE]
        ELSE r

\* profile(message): console.profile around the call; the result passes through.
profile(inst, ctx, args) == Through(inst, ctx, args)

\* deprecate(message, eachCall): warn when not yet warned or eachCall is truthy.
deprecate(inst, ctx, args) ==
    LET r == Through(inst, ctx, args)
    IN  IF ~inst.warned \/ Truthy(Arg(inst.params, 2))
        THEN [r EXCEPT !.inst = [inst EXCEPT !.warned = TRUE], !.logs = 1]
        ELSE r

\* throttle without its guard: every invocation sets a timer and runs the base callable.
throttleUnguarded(inst, ctx, args, tid) ==
    [Through(inst, ctx, args) EXCEPT
        !.inst = [inst EXCEPT !.timer = tid],
        !.arm = <<[delay |-> Delay(Arg(inst.params, 1)), ctx |-> "none", args |-> <<>>]>>]

\* throttle that sets its timer only after the base callable has returned.
throttleArmOnReturn(inst, ctx, args, tid) ==
    LET r == Through(inst, ctx, args)
    IN  IF inst.timer # 0 THEN Nothing(inst)
        ELSE IF r.threw THEN r
        ELSE [r EXCEPT
                !.inst = [inst EXCEPT !.timer = tid],
                !.arm = <<[delay |-> Delay(Arg(inst.params, 1)), ctx |-> "none", args |-> <<>>]>>]

(* throttle(interval): with no timer, set one that clears the handle after *)
(* interval, then run the base callable; otherwise do nothing.  tid is the *)
(* handle setTimeout returns.                                              *)
throttle(inst, ctx, args, tid) ==
    IF inst.timer = 0
    THEN [Through(inst, ctx, args) EXCEPT
            !.inst = [inst EXCEPT !.timer = tid],
            !.arm = <<[delay |-> Delay(Arg(inst.params, 1)), ctx |-> "none", args |-> <<>>]>>]
    ELSE Nothing(inst)

\* debounce that forgets clearTimeout.
debounceNoClear(inst, ctx, args, tid) ==
    [Nothing(inst) EXCEPT
        !.inst = [inst EXCEPT !.timer = tid],
        !.arm = <<[delay |-> Delay(Arg(inst.params, 1)), ctx |-> ctx, args |-> args]>>]

\* debounce that also runs the base callable at once, on every invocation.
debounceImmediate(inst, ctx, args, tid) ==
    [Through(inst, ctx, args) EXCEPT
        !.inst = [inst EXCEPT !.timer = tid],
        !.clear = inst.timer,
        !.arm = <<[delay |-> Delay(Arg(inst.params, 1)), ctx |-> ctx, args |-> args]>>]

\* debounce whose timer is due at once when it replaces an earlier one.
debounceNoDelayOnReset(inst, ctx, args, tid) ==
    [Nothing(inst) EXCEPT
        !.inst = [inst EXCEPT !.timer = tid],
        !.clear = inst.timer,
        !.arm = <<[delay |-> IF inst.timer = 0 THEN Delay(Arg(inst.params, 1)) ELSE 0,
                   ctx |-> ctx, args |-> args]>>]

(* debounce(interval): clear the stored handle if there is one, then set a *)
(* timer that runs the base callable with this invocation's context/args.  *)
debounce(inst, ctx, args, tid) ==
    [Nothing(inst) EXCEPT
        !.inst = [inst EXCEPT !.timer = tid],
        !.clear = inst.timer,
        !.arm = <<[delay |-> Delay(Arg(inst.params, 1)), ctx |-> ctx, args |-> args]>>]

\* queue that puts the new arguments in front of the pending ones.
queueUnshift(inst, ctx, args, tid) ==
    LET pushed == [inst EXCEPT !.calls = <<args>> \o inst.calls]
    IN  IF inst.timer = 0
        THEN [Nothing(inst) EXCEPT
                !.inst = [pushed EXCEPT !.timer = tid],
                !.arm = <<[delay |-> Delay(Arg(inst.params, 1)), ctx |-> ctx, args |-> <<>>]>>]
        ELSE [Nothing(inst) EXCEPT !.inst = pushed]

\* A queue that runs a call on an idle queue at once and defers the others.
queueImmediate(inst, ctx, args, tid) ==
    IF inst.timer = 0
    THEN [Through(inst, ctx, args) EXCEPT
            !.inst = [inst EXCEPT !.timer = tid],
            !.arm = <<[delay |-> Delay(Arg(inst.params, 1)), ctx |-> ctx, args |-> <<>>]>>]
    ELSE [Nothing(inst) EXCEPT !.inst = [inst EXCEPT !.calls = Append(inst.calls, args)]]

(* queue(interval): push the arguments; with no stored handle, set the     *)
(* drain timer, whose callback keeps this invocation's context.            *)
queue(inst, ctx, args, tid) ==
    LET pushed == [inst EXCEPT !.calls = Append(inst.calls, args)]
    IN  IF inst.timer = 0
        THEN [Nothing(inst) EXCEPT
                !.inst = [pushed EXCEPT !.timer = tid],
                !.arm = <<[delay |-> Delay(Arg(inst.params, 1)), ctx |-> ctx, args |-> <<>>]>>]
        ELSE [Nothing(inst) EXCEPT !.inst = pushed]

\* decorator.apply(this, [method, arguments]) for a closure of each factory.
Apply(inst, ctx, args, tid) ==
    CASE inst.kind = "throttle" -> throttle(inst, ctx, args, tid)
      [] inst.kind = "debounce" -> debounce(inst, ctx, args, tid)
      [] inst.kind = "queue" -> queue(inst, ctx, args, tid)
      [] inst.kind = "strictArguments" -> strictArguments(inst, ctx, args)
      [] inst.kind = "strictReturn" -> strictReturn(inst, ctx, args)
      [] inst.kind = "profile" -> profile(inst, ctx, args)
      [] inst.kind = "deprecate" -> deprecate(inst, ctx, args)
      [] inst.kind = "multiplierDecorator" -> multiplierDecorator(inst, ctx, args)
      [] OTHER -> dummyDecorator(inst, ctx, args)

(* The callbacks handed to setTimeout.  t is the timer that expired: it    *)
(* carries what its callback captured (context, arguments); tid is the     *)
(* handle a setTimeout made inside the callback returns.                   *)

\* A throttle callback that leaves the handle set.
throttleCallbackKeeps(inst, t, tid) == Nothing(inst)

\* throttle, line 185: function() { timer = null; }
throttleCallback(inst, t, tid) ==
    [Nothing(inst) EXCEPT !.inst = [inst EXCEPT !.timer = 0]]

\* debounce, line 214: function() { method.apply(context, args); }
debounceCallback(inst, t, tid) == Through(inst, t.ctx, t.args)

\* A drain callback that replays and re-arms but never clears the handle.
queueCallbackKeeps(inst, t, tid) ==
    IF Len(inst.calls) = 0
    THEN Nothing(inst)
    ELSE LET rest == Tail(inst.calls)
             r == Through([inst EXCEPT !.calls = rest], t.ctx, Head(inst.calls))
         IN  IF r.threw \/ Len(rest) = 0 THEN r
             ELSE [r EXCEPT !.arm =
                    <<[delay |-> Delay(Arg(inst.params, 1)), ctx |-> t.ctx, args |-> <<>>]>>]

(* queue, lines 247-251:                                                   *)
(*     calls.length && method.apply(context, calls.shift());               *)
(*     calls.length && callee();                                           *)
(*     timer = null;                                                       *)
(* A raising base callable ends the callback at its first statement.       *)
queueCallback(inst, t, tid) ==
    IF Len(inst.calls) = 0
    THEN [Nothing(inst) EXCEPT !.inst = [inst EXCEPT !.timer = 0]]
    ELSE LET rest == Tail(inst.calls)
             r == Through([inst EXCEPT !.calls = rest], t.ctx, Head(inst.calls))
         IN  IF r.threw THEN r
             ELSE IF Len(rest) > 0
             THEN [r EXCEPT
                     !.inst = [r.inst EXCEPT !.timer = 0],
                     !.arm = <<[delay |-> Delay(Arg(inst.params, 1)), ctx |-> t.ctx, args |-> <<>>]>>]
             ELSE [r EXCEPT !.inst = [r.inst EXCEPT !.timer = 0]]

Callback(inst, t, tid) ==
    CASE inst.kind = "throttle" -> throttleCallback(inst, t, tid)
      [] inst.kind = "debounce" -> debounceCallback(inst, t, tid)
      [] OTHER -> queueCallback(inst, t, tid)

---------------------------------------------------------------------------
(* The program state as one record, so that handlers compose. *)

Cur ==
    [now |-> now, Collection |-> Collection, fns |-> fns, insts |-> insts,
     timers |-> timers, nextTimer |-> nextTimer, log |-> log]

Commit(s) ==
    /\ now' = s.now
    /\ Collection' = s.Collection
    /\ fns' = s.fns
    /\ insts' = s.insts
    /\ timers' = s.timers
    /\ nextTimer' = s.nextTimer
    /\ log' = s.log

\* One entry of the history.
Event(ty, f, i, t, args, ctx, at, o, armed) ==
    [type |-> ty, f |-> f, inst |-> i, tid |-> t, args |-> args, ctx |-> ctx,
     at |-> at, ran |-> o.ran, xargs |-> o.xargs, xctx |-> o.xctx, ret |-> o.ret,
     threw |-> o.threw, logs |-> o.logs, armed |-> armed]

(* setTimeout and clearTimeout as the outcome o of a handler of closure i  *)
(* asks for them, and the closure's new state.                             *)
Settle(s, f, i, o) ==
    [s EXCEPT
        !.insts = [s.insts EXCEPT ![i] = o.inst],
        !.timers = {t \in s.timers : t.id # o.clear} \cup
                   {[id |-> s.nextTimer, inst |-> i, f |-> f, due |-> s.now + o.arm[k].delay,
                     ctx |-> o.arm[k].ctx, args |-> o.arm[k].args] : k \in DOMAIN o.arm},
        !.nextTimer = s.nextTimer + Len(o.arm)]

Armed(s, o) == IF Len(o.arm) > 0 THEN s.nextTimer ELSE 0

Logged(s, e) == [s EXCEPT !.log = Append(s.log, e)]

---------------------------------------------------------------------------
(* Function.prototype.decorate, lines 42-54. *)

\* base.decorate(factory(a1, ..., an)): the closure is made once, here.
decorateFunction(s, kind, fargs) ==
    [s EXCEPT
        !.insts = Append(s.insts, Factory(kind, Spread(fargs))),
        !.fns = Append(s.fns, [byName |-> FALSE, inst |-> Len(s.insts) + 1,
                               name |-> "", args |-> <<>>])]

\* base.decorate(name, a1, ..., an): only the name and the arguments are kept.
decorateName(s, name, fargs) ==
    [s EXCEPT
        !.fns = Append(s.fns, [byName |-> TRUE, inst |-> 0, name |-> name, args |-> fargs])]

\* A decorated callable that applies its decorator without the caller's context.
callFunctionUnbound(s, f, ctx, args) ==
    LET i == s.fns[f].inst
        o == Apply(s.insts[i], "window", args, s.nextTimer)
    IN  Logged(Settle(s, f, i, o), Event("call", f, i, 0, args, ctx, s.now, o, Armed(s, o)))

\* Decorated callables whose decorators all work on the state of the first closure.
callFunctionShared(s, f, ctx, args) ==
    LET o == Apply(s.insts[1], ctx, args, s.nextTimer)
    IN  Logged(Settle(s, f, 1, o), Event("call", f, 1, 0, args, ctx, s.now, o, Armed(s, o)))

\* Lines 46-48: return decorator.apply(this, [method, arguments]).
callFunction(s, f, ctx, args) ==
    LET i == s.fns[f].inst
        o == Apply(s.insts[i], ctx, args, s.nextTimer)
    IN  Logged(Settle(s, f, i, o), Event("call", f, i, 0, args, ctx, s.now, o, Armed(s, o)))

\* Decoration by name that uses the factory the name had when the library loaded.
callNameLoaded(s, f, ctx, args) ==
    LET factory == IF s.fns[f].name \in {"dummyDecorator", "multiplierDecorator"}
                   THEN "undefined" ELSE s.fns[f].name
        made == [s EXCEPT !.insts = Append(s.insts, Factory(factory, <<Arr(s.fns[f].args)>>))]
        i == Len(made.insts)
        o == Apply(made.insts[i], ctx, args, s.nextTimer)
    IN  IF factory = "undefined"
        THEN Logged(s, Event("call", f, 0, 0, args, ctx, s.now, Thrown(Undefined), 0))
        ELSE Logged(Settle(made, f, i, o), Event("call", f, i, 0, args, ctx, s.now, o, Armed(s, o)))

(* Lines 50-52: return Function.Decorators.Collection[decorator](args)     *)
(*                         .apply(this, [method, arguments]).              *)
(* The factory is looked up and called at every invocation, with the       *)
(* decorator arguments as one array; calling a missing entry raises.       *)
callName(s, f, ctx, args) ==
    LET factory == s.Collection[s.fns[f].name]
        made == [s EXCEPT !.insts = Append(s.insts, Factory(factory, <<Arr(s.fns[f].args)>>))]
        i == Len(made.insts)
        o == Apply(made.insts[i], ctx, args, s.nextTimer)
    IN  IF factory = "undefined"
        THEN Logged(s, Event("call", f, 0, 0, args, ctx, s.now, Thrown(Undefined), 0))
        ELSE Logged(Settle(made, f, i, o), Event("call", f, i, 0, args, ctx, s.now, o, Armed(s, o)))

\* An invocation of the decorated callable f under context ctx.
call(s, f, ctx, args) ==
    IF s.fns[f].byName THEN callName(s, f, ctx, args) ELSE callFunction(s, f, ctx, args)

\* The callback of the expired timer t runs.
expire(s, t) ==
    LET o == Callback(s.insts[t.inst], t, s.nextTimer)
        gone == [s EXCEPT !.timers = s.timers \ {t}]
    IN  Logged(Settle(gone, t.f, t.inst, o),
               Event("fire", t.f, t.inst, t.id, <<>>, "none", s.now, o, Armed(s, o)))

\* A registry in which the first registration of a name wins.
addIfAbsent(s, name, decorator) ==
    IF s.Collection[name] = "undefined"
    THEN [s EXCEPT !.Collection = [s.Collection EXCEPT ![name] = decorator]]
    ELSE s

\* Function.Decorators.add, lines 92-94.
add(s, name, decorator) ==
    [s EXCEPT !.Collection = [s.Collection EXCEPT ![name] = decorator]]

---------------------------------------------------------------------------
(* Inputs. *)

Ctxs == {"c1", "c2"}
Intervals == 0..MaxInterval

(* Invocations of the timing decorators: a context and an argument list;    *)
(* <<Boom>> makes the base callable raise.                                 *)
Inputs ==
    {[ctx |-> "c1", args |-> <<Num(1)>>], [ctx |-> "c2", args |-> <<Num(2)>>],
     [ctx |-> "c1", args |-> <<Boom>>]}

\* The invocations that do not make the base callable raise.
QuietInputs == {in \in Inputs : ~Raises(in.args)}

Builtins ==
    {"strictArguments", "strictReturn", "throttle", "debounce", "queue", "profile",
     "deprecate"}

\* The decorator factories of the tests (Specs/Function.Decorate.spec.js).
TestFactories == {"dummyDecorator", "multiplierDecorator"}

Names == Builtins \cup TestFactories

---------------------------------------------------------------------------
(* The state after the library has loaded: the collection holds the        *)
(* built-in factories, nothing is decorated, no timer is set.              *)

Loaded ==
    [now |-> 0,
     Collection |-> [n \in Names |-> IF n \in Builtins THEN n ELSE "undefined"],
     fns |-> <<>>, insts |-> <<>>, timers |-> {}, nextTimer |-> 1, log |-> <<>>]

\* The program starts in state s.
Start(s) ==
    /\ now = s.now
    /\ Collection = s.Collection
    /\ fns = s.fns
    /\ insts = s.insts
    /\ timers = s.timers
    /\ nextTimer = s.nextTimer
    /\ log = s.log

Init == Start(Loaded)

NCalls == Cardinality({i \in DOMAIN log : log[i].type = "call"})

\* A timer whose callback runs next: due, and first among the pending ones.
Fireable(t) ==
    /\ t.due <= now
    /\ \A u \in timers : u.due > t.due \/ (u.due = t.due /\ u.id >= t.id)

---------------------------------------------------------------------------
(* Actions. *)

DecorateFunction(kind, fargs) == Commit(decorateFunction(Cur, kind, fargs))

DecorateName(name, fargs) == Commit(decorateName(Cur, name, fargs))

Invoke(f, ctx, args) ==
    /\ NCalls < MaxCalls
    /\ Commit(call(Cur, f, ctx, args))

Fire == \E t \in timers : Fireable(t) /\ Commit(expire(Cur, t))

Tick ==
    /\ now < MaxTime
    /\ \A t \in timers : t.due > now
    /\ now' = now + 1
    /\ UNCHANGED <<Collection, fns, insts, timers, nextTimer, log>>

\* The registrations made so far.
NAdds == Cardinality({i \in DOMAIN log : log[i].type = "add"})

\* The history's record of Function.Decorators.add(name, decorator).
AddEvent(name, decorator, at) ==
    [type |-> "add", f |-> 0, name |-> name, decorator |-> decorator, at |-> at]

Add(name, decorator) ==
    /\ NAdds < MaxAdds
    /\ Commit(Logged(add(Cur, name, decorator), AddEvent(name, decorator, now)))

---------------------------------------------------------------------------
(* One closure of a timing factory, decorated directly:                    *)
(* base.decorate(Function.Decorators.Collection.throttle(interval)).       *)

InitThrottle == \E iv \in Intervals : Start(decorateFunction(Loaded, "throttle", <<Num(iv)>>))

NextTimed ==
    \/ \E f \in DOMAIN fns, in \in Inputs : Invoke(f, in.ctx, in.args)
    \/ Fire
    \/ Tick

SpecThrottle == InitThrottle /\ [][NextTimed]_vars

InitDebounce == \E iv \in Intervals : Start(decorateFunction(Loaded, "debounce", <<Num(iv)>>))

SpecDebounce == InitDebounce /\ [][NextTimed]_vars

InitQueue == \E iv \in Intervals : Start(decorateFunction(Loaded, "queue", <<Num(iv)>>))

SpecQueue == InitQueue /\ [][NextTimed]_vars

\* One closure of throttle or of debounce.
InitThrottleDebounce == InitThrottle \/ InitDebounce

SpecThrottleDebounce == InitThrottleDebounce /\ [][NextTimed]_vars

---------------------------------------------------------------------------
(* Two closures of one timing factory, made by two calls of it with the    *)
(* same interval, each decorating the base callable:                       *)
(* base.decorate(throttle(interval)) twice.                                *)

TimingFactories == {"throttle", "debounce", "queue"}

InitIsolation ==
    \E kind \in TimingFactories, iv \in Intervals :
        Start(decorateFunction(decorateFunction(Loaded, kind, <<Num(iv)>>), kind, <<Num(iv)>>))

\* Each of the two callables is invoked with an argument and a context of its own.
OwnInput(f) == CHOOSE in \in QuietInputs : in.args = <<Num(f)>>

NextIsolation ==
    \/ \E f \in DOMAIN fns : Invoke(f, OwnInput(f).ctx, OwnInput(f).args)
    \/ Fire
    \/ Tick

SpecIsolation == InitIsolation /\ [][NextIsolation]_vars

---------------------------------------------------------------------------
(* The queue with a base callable that does not raise, under the           *)
(* scheduling of a browser: a callback that is due runs, and time goes on  *)
(* while a timer is pending (beyond MaxTime too: the invocations are       *)
(* bounded, so only finitely many timers are ever set).                    *)

\* One unit of time passes; no callback is due.
Elapse ==
    /\ now < MaxTime \/ timers # {}
    /\ \A t \in timers : t.due > now
    /\ now' = now + 1
    /\ UNCHANGED <<Collection, fns, insts, timers, nextTimer, log>>

NextDrain ==
    \/ \E f \in DOMAIN fns, in \in QuietInputs : Invoke(f, in.ctx, in.args)
    \/ Fire
    \/ Elapse

\* Some callback is due: Fire is enabled (a callback always adds to the history).
FireDue == \E t \in timers : Fireable(t)

\* Weak fairness of Fire, WF_vars(Fire), written out with FireDue for its
\* enabling condition.
FairFire == []<>(~FireDue) \/ []<><<Fire>>_vars

SpecQueueDrain == InitQueue /\ [][NextDrain]_vars /\ FairFire /\ WF_vars(Elapse)

---------------------------------------------------------------------------
(* Decoration by name, as documented: base.decorate('throttle', interval)  *)
(* and base.decorate('strictArguments', t1, ..., tk).                      *)

InitThrottleByName == \E iv \in Intervals : Start(decorateName(Loaded, "throttle", <<Num(iv)>>))

SpecThrottleByName == InitThrottleByName /\ [][NextTimed]_vars

Tags == {"number", "string"}

\* The lists t1, ..., tk of expected type tags, 1 <= k <= MaxTypes.
TypeLists == UNION {[1..k -> {Str(t) : t \in Tags}] : k \in 1..MaxTypes}

\* Argument lists of up to MaxTypes numbers and strings.
StrictArgs == UNION {[1..k -> {Num(1), Str("a")}] : k \in 0..MaxTypes}

InitStrictByName == \E types \in TypeLists : Start(decorateName(Loaded, "strictArguments", types))

NextStrict == \E f \in DOMAIN fns, args \in StrictArgs : Invoke(f, "c1", args)

SpecStrictByName == InitStrictByName /\ [][NextStrict]_vars

---------------------------------------------------------------------------
(* The validators decorated directly:                                      *)
(* base.decorate(Function.Decorators.Collection.strictArguments(t1, ...,   *)
(* tk)), 0 <= k <= MaxTypes, invoked up to MaxStrictCalls times.           *)

\* Invocations of a validated callable: numbers and strings under one
\* context, and under another a raising and an undefined argument.
StrictInputs ==
    {[ctx |-> "c1", args |-> a] : a \in StrictArgs}
        \cup {[ctx |-> "c2", args |-> <<Boom>>], [ctx |-> "c2", args |-> <<Undefined>>]}

InitStrictArguments ==
    \E types \in TypeLists \cup {<<>>} :
        Start(decorateFunction(Loaded, "strictArguments", types))

NextStrictDirect ==
    /\ NCalls < MaxStrictCalls
    /\ \E f \in DOMAIN fns, in \in StrictInputs : Invoke(f, in.ctx, in.args)

SpecStrictArguments == InitStrictArguments /\ [][NextStrictDirect]_vars

\* base.decorate(Function.Decorators.Collection.strictReturn(type)).
InitStrictReturn ==
    \E t \in Tags : Start(decorateFunction(Loaded, "strictReturn", <<Str(t)>>))

SpecStrictReturn == InitStrictReturn /\ [][NextStrictDirect]_vars

---------------------------------------------------------------------------
(* Decoration by name as the program goes: starting from the loaded        *)
(* library, up to MaxFns callables are made with base.decorate(name) and   *)
(* invoked.  The test factories are not registered here, so their names    *)
(* have no factory in the collection.                                      *)

LookupNames == {"profile"} \cup TestFactories

NextLookup ==
    \/ /\ Len(fns) < MaxFns
       /\ \E name \in LookupNames : DecorateName(name, <<>>)
    \/ \E f \in DOMAIN fns, in \in Inputs : Invoke(f, in.ctx, in.args)

SpecLookup == Init /\ [][NextLookup]_vars

---------------------------------------------------------------------------
(* The documented use of deprecate: base.decorate('deprecate', message),   *)
(* and the same with eachCall given as false or true.                      *)

DeprecateArgs ==
    {<<Str("msg")>>, <<Str("msg"), Bool(FALSE)>>, <<Str("msg"), Bool(TRUE)>>}

InitDeprecateByName ==
    \E fargs \in DeprecateArgs : Start(decorateName(Loaded, "deprecate", fargs))

NextDeprecate == \E f \in DOMAIN fns, in \in Inputs : Invoke(f, in.ctx, in.args)

SpecDeprecateByName == InitDeprecateByName /\ [][NextDeprecate]_vars

---------------------------------------------------------------------------
(* The registry: starting from the loaded library, up to MaxAdds factories *)
(* are registered with Function.Decorators.add, under a name that is not   *)
(* built in and under a built-in one; the other names are never added.     *)

AddNames == {"dummyDecorator", "throttle"}

AddFactories == {"dummyDecorator", "multiplierDecorator", "throttle"}

NextRegistry == \E name \in AddNames, decorator \in AddFactories : Add(name, decorator)

SpecRegistry == Init /\ [][NextRegistry]_vars

---------------------------------------------------------------------------
(* Registration after decoration: base.decorate('dummyDecorator', 2) is    *)
(* called while the collection has no such name, and the name is then      *)
(* registered, and registered again, with the factories of the tests,      *)
(* between the invocations of the decorated callable.                      *)

InitLateBinding == Start(decorateName(Loaded, "dummyDecorator", <<Num(2)>>))

NextLateBinding ==
    \/ \E decorator \in TestFactories : Add("dummyDecorator", decorator)
    \/ \E f \in DOMAIN fns, in \in Inputs : Invoke(f, in.ctx, in.args)

SpecLateBinding == InitLateBinding /\ [][NextLateBinding]_vars

---------------------------------------------------------------------------
(* The registry round trip: a factory is registered under its name with    *)
(* Function.Decorators.add, and one base callable is decorated twice with  *)
(* the same decorator argument: as base.decorate(factory(a)) (callable 1)  *)
(* and as base.decorate(name, a) (callable 2).  Both are driven alike:     *)
(* every invocation goes to both, at instants when no callback is due.     *)

RoundTripFactories == {"throttle", "debounce", "queue"} \cup TestFactories

InitRoundTrip ==
    \E factory \in RoundTripFactories, a \in Intervals :
        Start(decorateName(decorateFunction(add(Loaded, factory, factory),
                                            factory, <<Num(a)>>),
                           factory, <<Num(a)>>))

InvokeBoth(ctx, args) ==
    /\ NCalls < 2 * MaxCalls
    /\ \A t \in timers : t.due > now
    /\ Commit(call(call(Cur, 1, ctx, args), 2, ctx, args))

NextRoundTrip ==
    \/ \E in \in Inputs : InvokeBoth(in.ctx, in.args)
    \/ Fire
    \/ Tick

SpecRoundTrip == InitRoundTrip /\ [][NextRoundTrip]_vars

---------------------------------------------------------------------------
(* A pass-through decorator, decorated directly as in the tests:           *)
(* simpleReturn.decorate(dummyDecorator()).  No timer is ever set.         *)

DispatchArgs == {<<>>, <<Num(1)>>, <<Str("a"), Num(2)>>, <<Boom>>}

InitDispatch == Start(decorateFunction(Loaded, "dummyDecorator", <<>>))

NextDispatch == \E f \in DOMAIN fns, ctx \in Ctxs, args \in DispatchArgs : Invoke(f, ctx, args)

SpecDispatch == InitDispatch /\ [][NextDispatch]_vars

---------------------------------------------------------------------------
(* Reading the history. *)

IsCall(j, f) == log[j].type = "call" /\ log[j].f = f

\* The callback of timer tid ran strictly between positions i and j.
Fired(tid, i, j) == \E k \in (i + 1)..(j - 1) : log[k].type = "fire" /\ log[k].tid = tid

\* At position j a timer set earlier for callable f has not yet expired.
TimerActive(f, j) ==
    \E i \in 1..(j - 1) : log[i].f = f /\ log[i].armed # 0 /\ ~Fired(log[i].armed, i, j)

\* The callables decorated directly with a closure of factory kind.
Direct(kind) == {f \in DOMAIN fns : ~fns[f].byName /\ insts[fns[f].inst].kind = kind}

\* The callables decorated by name.
ByName(name) == {f \in DOMAIN fns : fns[f].byName /\ fns[f].name = name}

\* The positions of the history at which the base callable of f was executed.
Execs(f) == {k \in DOMAIN log : log[k].f = f /\ log[k].ran}

---------------------------------------------------------------------------
(* C1 - dispatch identity: every invocation of a callable decorated with a *)
(* pass-through decorator executes the base callable with the invocation's *)
(* own arguments and context, and returns (or raises) exactly what the     *)
(* undecorated base callable does for them.                                *)
DispatchIdentity ==
    \A f \in Direct("dummyDecorator") : \A j \in DOMAIN log :
        IsCall(j, f) =>
            /\ log[j].ran /\ log[j].xargs = log[j].args /\ log[j].xctx = log[j].ctx
            /\ log[j].ret = method(log[j].ctx, log[j].args).value
            /\ log[j].threw = method(log[j].ctx, log[j].args).threw

(* Invocations under two contexts, one returning its argument, one the     *)
(* context's value, and one raising.                                       *)
DispatchIdentityWitness ==
    \E f \in Direct("dummyDecorator") : \E i, j, k \in DOMAIN log :
        /\ IsCall(i, f) /\ IsCall(j, f) /\ IsCall(k, f)
        /\ log[i].ctx = "c1" /\ log[i].ret = Num(1)
        /\ log[j].ctx = "c2" /\ log[j].args = <<>> /\ log[j].ret = Str("c2")
        /\ log[k].threw

(* C2 - throttle leading edge: an invocation that finds no timer active    *)
(* executes the base callable with its own arguments and context and sets  *)
(* a timer; until that timer expires no other invocation executes the base *)
(* callable, and each of them returns undefined without raising.           *)
ThrottleLeadingEdge ==
    \A f \in Direct("throttle") : \A i \in DOMAIN log :
        (IsCall(i, f) /\ ~TimerActive(f, i)) =>
            /\ log[i].ran /\ log[i].xargs = log[i].args /\ log[i].xctx = log[i].ctx
            /\ log[i].armed # 0
            /\ \A j \in (i + 1)..Len(log) :
                (log[j].f = f /\ ~Fired(log[i].armed, i, j)) =>
                    /\ ~log[j].ran /\ log[j].ret = Undefined /\ ~log[j].threw
                    /\ log[j].armed = 0

\* Three invocations inside one window: the first executed, two dropped.
ThrottleLeadingEdgeWitness ==
    \E f \in Direct("throttle") : \E i, j, k \in DOMAIN log :
        /\ i < j /\ j < k /\ IsCall(i, f) /\ IsCall(j, f) /\ IsCall(k, f)
        /\ ~TimerActive(f, i) /\ ~Fired(log[i].armed, i, k)
        /\ log[i].ran /\ ~log[j].ran /\ ~log[k].ran
        /\ log[j].args # log[i].args

(* C3 - throttle window reopen: once the timer set by an executed          *)
(* invocation has expired, the next invocation executes the base callable  *)
(* synchronously with its own arguments and context, returns (or raises)   *)
(* what the base callable does, and sets a new timer.                      *)
ThrottleWindowReopen ==
    \A f \in Direct("throttle") : \A j \in DOMAIN log :
        (/\ IsCall(j, f)
         /\ \E i \in 1..(j - 1) : IsCall(i, f) /\ log[i].ran /\ Fired(log[i].armed, i, j)
         /\ ~TimerActive(f, j)) =>
            /\ log[j].ran /\ log[j].xargs = log[j].args /\ log[j].xctx = log[j].ctx
            /\ log[j].ret = method(log[j].ctx, log[j].args).value
            /\ log[j].threw = method(log[j].ctx, log[j].args).threw
            /\ log[j].armed # 0
            /\ \A i \in 1..(j - 1) : log[i].armed # log[j].armed
            /\ \/ \E t \in timers : t.id = log[j].armed /\ t.due = log[j].at + Delay(insts[log[j].inst].params[1])
               \/ Fired(log[j].armed, j, Len(log) + 1)

\* An executed invocation, a dropped one, the expiry, and an executed invocation again.
ThrottleWindowReopenWitness ==
    \E f \in Direct("throttle") : \E i, j, k \in DOMAIN log :
        /\ i < j /\ j < k /\ IsCall(i, f) /\ IsCall(j, f) /\ IsCall(k, f)
        /\ log[i].ran /\ ~log[j].ran /\ Fired(log[i].armed, j, k)
        /\ log[k].ran /\ log[k].ret = log[k].args[1] /\ log[k].armed # 0

\* The callbacks of the timer set at position i that have run.
FiredAt(i) == {k \in DOMAIN log : log[k].type = "fire" /\ log[k].tid = log[i].armed}

\* A later invocation of f arrived before the timer set at position i expired.
Superseded(f, i) == \E j \in (i + 1)..Len(log) : IsCall(j, f) /\ ~Fired(log[i].armed, i, j)

(* C4 - debounce collapse: the base callable is executed only by timer     *)
(* callbacks; an invocation that is followed by another one before its     *)
(* timer expires is never executed, and the last invocation of a burst is  *)
(* executed exactly once, with its own arguments and context: its timer is *)
(* either still pending (the only pending one, due one interval after the  *)
(* invocation) or has run the base callable once.                          *)
DebounceCollapse ==
    \A f \in Direct("debounce") :
        /\ \A k \in Execs(f) : log[k].type = "fire"
        /\ \A i \in DOMAIN log : IsCall(i, f) =>
            /\ log[i].armed # 0
            /\ IF Superseded(f, i)
               THEN FiredAt(i) = {} /\ \A t \in timers : t.id # log[i].armed
               ELSE \/ /\ FiredAt(i) = {}
                       /\ \E t \in timers :
                            /\ t.id = log[i].armed
                            /\ t.due = log[i].at + Delay(insts[log[i].inst].params[1])
                       /\ \A t \in timers : t.f = f => t.id = log[i].armed
                    \/ /\ Cardinality(FiredAt(i)) = 1
                       /\ \A t \in timers : t.id # log[i].armed
                       /\ \A k \in FiredAt(i) :
                            /\ log[k].ran
                            /\ log[k].xargs = log[i].args
                            /\ log[k].xctx = log[i].ctx

\* A burst of three invocations, then one execution with the last one's arguments.
DebounceCollapseWitness ==
    \E f \in Direct("debounce") : \E i, j \in DOMAIN log :
        /\ i + 2 < j
        /\ IsCall(i, f) /\ IsCall(i + 1, f) /\ IsCall(i + 2, f)
        /\ log[i].args # log[i + 2].args /\ log[i + 1].ctx # log[i + 2].ctx
        /\ log[i].at < log[i + 2].at
        /\ Execs(f) = {j} /\ log[j].tid = log[i + 2].armed
        /\ log[j].xargs = log[i + 2].args /\ log[j].xctx = log[i + 2].ctx

\* The argument lists submitted to f, in submission order.
Submitted(f) ==
    LET calls == SelectSeq(log, LAMBDA e : e.type = "call" /\ e.f = f)
    IN  [k \in DOMAIN calls |-> calls[k].args]

\* The argument lists the base callable of f was executed with, in execution order.
Executed(f) ==
    LET execs == SelectSeq(log, LAMBDA e : e.f = f /\ e.ran)
    IN  [k \in DOMAIN execs |-> execs[k].xargs]

(* C5 - queue FIFO: the argument lists the base callable has been executed *)
(* with are a prefix of the submitted ones, in submission order (nothing   *)
(* reordered, repeated or coalesced), and the submitted calls not yet      *)
(* executed are exactly the pending queue, in order (nothing dropped).     *)
QueueFIFO ==
    \A f \in Direct("queue") :
        LET sub == Submitted(f)
            exe == Executed(f)
        IN  /\ Len(exe) <= Len(sub)
            /\ exe = SubSeq(sub, 1, Len(exe))
            /\ insts[fns[f].inst].calls = SubSeq(sub, Len(exe) + 1, Len(sub))

(* Two calls submitted, one replayed, a third submitted during the drain,  *)
(* and all three replayed in order.                                        *)
QueueFIFOWitness ==
    \E f \in Direct("queue") : \E i \in DOMAIN log :
        /\ i + 3 <= Len(log)
        /\ IsCall(i, f) /\ IsCall(i + 1, f) /\ log[i + 2].type = "fire"
        /\ IsCall(i + 3, f)
        /\ log[i].args # log[i + 1].args /\ log[i + 3].args # log[i + 1].args
        /\ Len(Executed(f)) = 3
        /\ Executed(f) = Submitted(f)

(* C6 - queue spacing: any two executions of the base callable by one      *)
(* queue(T) closure are at least T apart.                                  *)
QueueSpacing ==
    \A f \in Direct("queue") : \A j, k \in Execs(f) :
        j < k => log[k].at - log[j].at >= Delay(insts[fns[f].inst].params[1])

(* C7 - the queue survives a failing replay: whenever calls are pending,   *)
(* a drain timer is pending too, also after a replay has raised.           *)
QueueSurvivesRaise ==
    \A f \in Direct("queue") :
        insts[fns[f].inst].calls # <<>> => \E t \in timers : t.inst = fns[f].inst

\* What the base callable of f was executed with, and when, in execution order.
ExecutedAt(f) ==
    LET execs == SelectSeq(log, LAMBDA e : e.f = f /\ e.ran)
    IN  [k \in DOMAIN execs |-> <<execs[k].xargs, execs[k].xctx, execs[k].at>>]

(* C8 - registry round trip: a callable decorated by name and one          *)
(* decorated with the factory's closure directly, with the same decorator  *)
(* arguments, answer every common invocation alike (same result, same      *)
(* raise, same execution of the base callable), and once every due         *)
(* callback has run they have executed the base callable at the same times *)
(* with the same arguments and contexts.                                   *)
RegistryRoundTrip ==
    \A f \in DOMAIN fns, g \in DOMAIN fns :
        (/\ ~fns[f].byName /\ fns[g].byName
         /\ insts[fns[f].inst].kind = Collection[fns[g].name]
         /\ insts[fns[f].inst].params = Spread(fns[g].args)) =>
            /\ \A k \in DOMAIN log :
                (k < Len(log) /\ IsCall(k, f) /\ IsCall(k + 1, g)) =>
                    /\ log[k].ret = log[k + 1].ret
                    /\ log[k].threw = log[k + 1].threw
                    /\ log[k].ran = log[k + 1].ran
                    /\ log[k].xargs = log[k + 1].xargs
            /\ (\A t \in timers : t.due > now) => ExecutedAt(f) = ExecutedAt(g)

(* C9 - a callable decorated by name keeps one throttle state: after an    *)
(* invocation of base.decorate('throttle', T) that executed the base       *)
(* callable, no invocation less than T later executes it.                  *)
ThrottleByNameKeepsState ==
    \A f \in ByName("throttle") : \A i, j \in DOMAIN log :
        (/\ i < j /\ IsCall(i, f) /\ IsCall(j, f) /\ log[i].ran
         /\ log[j].at < log[i].at + fns[f].args[1].n) => ~log[j].ran

(* C10 - decoration by name passes the decorator arguments positionally:   *)
(* a callable base.decorate('strictArguments', t1, ..., tk) executes the   *)
(* base callable exactly for the invocations with k arguments of the type  *)
(* tags t1, ..., tk in order, and raises for all others.                   *)
StrictArgumentsByName ==
    \A f \in ByName("strictArguments") : \A j \in DOMAIN log :
        IsCall(j, f) =>
            LET types == fns[f].args
                args == log[j].args
            IN  IF /\ Len(args) = Len(types)
                   /\ \A i \in DOMAIN types : type(args[i]) = types[i].s
                THEN log[j].ran /\ log[j].xargs = args /\ ~log[j].threw
                ELSE ~log[j].ran /\ log[j].threw

(* C11 - queue timing as documented: of three invocations made back to     *)
(* back on an idle queue(T) closure, the first runs the base callable      *)
(* immediately, the second T later and the third 2T later.                 *)
QueueTimingDocumented ==
    \A f \in Direct("queue") :
        (/\ Len(log) >= 3
         /\ IsCall(1, f) /\ IsCall(2, f) /\ IsCall(3, f)
         /\ log[2].at = log[1].at /\ log[3].at = log[1].at) =>
            LET T == Delay(insts[fns[f].inst].params[1])
                exe == ExecutedAt(f)
            IN  /\ log[1].ran
                /\ \A k \in DOMAIN exe : k <= 3 => exe[k][3] = log[1].at + (k - 1) * T

(* C12 - strictArguments(t1, ..., tk): an invocation raises without        *)
(* executing the base callable exactly when the number of arguments is not *)
(* k or some argument's type tag is not the expected one at its position;  *)
(* otherwise the base callable is executed once with the invocation's own  *)
(* arguments and context, and what it returns or raises is passed on.      *)
StrictArgumentsChecks ==
    \A f \in Direct("strictArguments"), j \in DOMAIN log :
        IsCall(j, f) =>
            LET e == log[j]
                types == insts[fns[f].inst].params
                mismatch ==
                    \/ Len(e.args) # Len(types)
                    \/ \E i \in 1..Len(e.args) : type(e.args[i]) # types[i].items[1].s
                base == method(e.ctx, e.args)
            IN  /\ (e.threw /\ ~e.ran) <=> mismatch
                /\ ~mismatch =>
                    /\ e.ran /\ e.xargs = e.args /\ e.xctx = e.ctx
                    /\ e.threw = base.threw /\ e.ret = base.value

\* One invocation passed both checks with two arguments, another one had the
\* right number of arguments and a wrong type tag.
StrictArgumentsChecksWitness ==
    \E f \in Direct("strictArguments"), j, k \in DOMAIN log :
        /\ IsCall(j, f) /\ log[j].ran /\ ~log[j].threw /\ Len(log[j].args) = 2
        /\ IsCall(k, f) /\ log[k].threw /\ ~log[k].ran /\ Len(log[k].args) = 2

(* C13 - strictReturn(type): every invocation executes the base callable   *)
(* exactly once, with the invocation's own arguments and context; the      *)
(* invocation raises when the type tag of the result is not the expected   *)
(* one (or when the base callable itself raises), and otherwise returns    *)
(* the result unchanged.                                                   *)
StrictReturnChecks ==
    \A f \in Direct("strictReturn"), j \in DOMAIN log :
        IsCall(j, f) =>
            LET e == log[j]
                expected == insts[fns[f].inst].params[1].items[1].s
                base == method(e.ctx, e.args)
            IN  /\ e.ran /\ e.xargs = e.args /\ e.xctx = e.ctx
                /\ e.threw <=> (base.threw \/ type(base.value) # expected)
                /\ ~e.threw => e.ret = base.value

\* One invocation returned a result of the expected type, another one raised
\* although the base callable had returned (a result of another type).
StrictReturnChecksWitness ==
    \E f \in Direct("strictReturn"), j, k \in DOMAIN log :
        /\ IsCall(j, f) /\ log[j].ran /\ ~log[j].threw /\ Len(log[j].args) > 0
        /\ log[j].ret = log[j].args[1]
        /\ IsCall(k, f) /\ log[k].ran /\ log[k].threw /\ ~method(log[k].ctx, log[k].args).threw

(* C14 - decoration by an unregistered name fails: decorate(name) for a    *)
(* name the collection has no factory for raises instead of returning, so  *)
(* no decorated callable ever exists for such a name, and the base         *)
(* callable is never executed through one.                                 *)
UnregisteredNameRejected ==
    /\ \A f \in DOMAIN fns : fns[f].byName => Collection[fns[f].name] # "undefined"
    /\ \A f \in DOMAIN fns :
        (fns[f].byName /\ Collection[fns[f].name] = "undefined") => Execs(f) = {}

\* The positions of the history at which name was registered.
Adds(name) == {k \in DOMAIN log : log[k].type = "add" /\ log[k].name = name}

(* C15 - registry add: the collection maps every name to the factory of    *)
(* the latest add made under that name, whatever the name held before      *)
(* (built-in names included); adds under other names leave it alone: a     *)
(* name never added maps to its built-in factory, or to nothing when it is *)
(* not built in.                                                           *)
RegistryAdd ==
    \A n \in Names :
        Collection[n] =
            IF Adds(n) # {}
            THEN log[CHOOSE k \in Adds(n) : \A j \in Adds(n) : j <= k].decorator
            ELSE IF n \in Builtins THEN n ELSE "undefined"

\* A built-in name was registered twice, with two different factories, and
\* another name once.
RegistryAddWitness ==
    \E n \in Builtins, m \in Names \ Builtins :
        /\ \E j, k \in Adds(n) : j < k /\ log[j].decorator # log[k].decorator
        /\ Adds(m) # {}

(* C16 - throttle with a failing base callable: when the invocation that   *)
(* finds no timer active raises in the base callable, the error reaches    *)
(* that caller and the timer is set all the same: the invocations made     *)
(* before that timer expires are dropped (no execution, no error), and the *)
(* first invocation after it has expired executes the base callable again. *)
ThrottleFailingBase ==
    \A f \in Direct("throttle"), i \in DOMAIN log :
        (IsCall(i, f) /\ ~TimerActive(f, i) /\ Raises(log[i].args)) =>
            /\ log[i].ran /\ log[i].threw /\ log[i].armed # 0
            /\ \A j \in (i + 1)..Len(log) :
                IsCall(j, f) =>
                    IF ~Fired(log[i].armed, i, j)
                    THEN ~log[j].ran /\ ~log[j].threw /\ log[j].ret = Undefined
                    ELSE (\A k \in (i + 1)..(j - 1) :
                            IsCall(k, f) => ~Fired(log[i].armed, i, k)) => log[j].ran

\* A leading invocation raised, the next one was dropped before the timer
\* expired, and one made after the expiry ran the base callable.
ThrottleFailingBaseWitness ==
    \E f \in Direct("throttle"), i, j, k \in DOMAIN log :
        /\ i < j /\ j < k
        /\ IsCall(i, f) /\ ~TimerActive(f, i) /\ log[i].threw
        /\ IsCall(j, f) /\ ~Fired(log[i].armed, i, j) /\ ~log[j].ran
        /\ IsCall(k, f) /\ Fired(log[i].armed, i, k) /\ log[k].ran

(* C17 - throttle with an interval of zero or less always fires: every     *)
(* invocation of such a closure executes the base callable, also the ones  *)
(* made back to back before any timer callback has run.                    *)
ThrottleZeroAlwaysFires ==
    \A f \in Direct("throttle"), j \in DOMAIN log :
        (IsCall(j, f) /\ ToNumber(insts[fns[f].inst].params[1]).n <= 0) => log[j].ran

(* C18 - debounce is fully deferred: no invocation of a debounced callable *)
(* executes the base callable itself, every invocation returns undefined   *)
(* and none raises, whatever the deferred executions do: a raise of the    *)
(* base callable happens in a timer callback and reaches no caller.        *)
DebounceDeferred ==
    \A f \in Direct("debounce"), j \in DOMAIN log :
        /\ IsCall(j, f) => ~log[j].ran /\ log[j].ret = Undefined /\ ~log[j].threw
        /\ (log[j].f = f /\ log[j].ran) => log[j].type = "fire"

\* A deferred execution raised in its timer callback, between two invocations
\* of the debounced callable.
DebounceDeferredWitness ==
    \E f \in Direct("debounce"), i, j, k \in DOMAIN log :
        /\ i < j /\ j < k
        /\ IsCall(i, f) /\ IsCall(k, f)
        /\ log[j].type = "fire" /\ log[j].tid = log[i].armed /\ log[j].ran /\ log[j].threw

(* C19 - queue replays each entry under its own context: the k-th          *)
(* execution of the base callable has the arguments and the context of the *)
(* k-th invocation of the queued callable, whichever invocation started    *)
(* the drain cycle.                                                        *)
QueueOwnContext ==
    \A f \in Direct("queue") :
        LET calls == SelectSeq(log, LAMBDA e : e.type = "call" /\ e.f = f)
            exe == ExecutedAt(f)
        IN  \A k \in DOMAIN exe :
                /\ k <= Len(calls)
                /\ exe[k][1] = calls[k].args
                /\ exe[k][2] = calls[k].ctx

(* C20 - queue timer invariant: in every state a queue closure has at most *)
(* one timer pending, and its stored handle is null exactly when it has no *)
(* timer pending (so that an invocation arriving while a re-armed drain    *)
(* timer is pending cannot start a second drain cycle).                    *)
QueueTimerInvariant ==
    \A f \in Direct("queue") :
        LET pending == {t \in timers : t.inst = fns[f].inst}
        IN  /\ Cardinality(pending) <= 1
            /\ insts[fns[f].inst].timer = 0 <=> pending = {}

\* The timers pending for the closure of callable f.
Pending(f) == {t \in timers : t.inst = fns[f].inst}

(* C21 - throttle and debounce timer invariant: a throttle or debounce     *)
(* closure has at most one timer pending in every state; throttle sets no  *)
(* timer while one is pending; debounce cancels the pending timer at every *)
(* invocation before it sets the next one, so that after an invocation the *)
(* only timer that can be pending or can still run is the one it set.      *)
TimerAtMostOne ==
    /\ \A f \in Direct("throttle") \cup Direct("debounce") : Cardinality(Pending(f)) <= 1
    /\ \A f \in Direct("throttle"), j \in DOMAIN log :
        (IsCall(j, f) /\ TimerActive(f, j)) => log[j].armed = 0
    /\ \A f \in Direct("debounce"), i, j \in DOMAIN log :
        (i < j /\ IsCall(i, f) /\ IsCall(j, f)) =>
            /\ log[j].armed # 0
            /\ \A t \in Pending(f) : t.id # log[i].armed
            /\ \A k \in (j + 1)..Len(log) : ~(log[k].type = "fire" /\ log[k].tid = log[i].armed)

\* A debounced callable was invoked again while its timer was pending, and
\* one timer is pending now.
TimerAtMostOneWitness ==
    \E f \in Direct("debounce"), i, j \in DOMAIN log :
        /\ i < j /\ IsCall(i, f) /\ IsCall(j, f) /\ ~Fired(log[i].armed, i, j)
        /\ Cardinality(Pending(f)) = 1

\* The queue of callable f is idle: nothing waits, no timer is pending, the
\* handle is null, and the executions are exactly the submitted calls, in order.
Idle(f) ==
    /\ insts[fns[f].inst].calls = <<>>
    /\ Pending(f) = {}
    /\ insts[fns[f].inst].timer = 0
    /\ Executed(f) = Submitted(f)

(* C22 - queue drains to idle: with a base callable that does not raise,   *)
(* finitely many invocations and timers that fire when due, the queue is   *)
(* idle again and again and finally for good (nothing waits, no timer is   *)
(* pending, the handle is null, every submitted call has been executed     *)
(* exactly once); and an invocation that finds the queue idle sets a timer *)
(* again, which starts a new drain cycle.                                  *)
QueueDrainsToIdle ==
    /\ <>[](\A f \in Direct("queue") : Idle(f))
    /\ [](\A f \in Direct("queue"), j \in DOMAIN log :
            (/\ IsCall(j, f)
             /\ ~TimerActive(f, j)
             /\ \A i \in 1..(j - 1) : IsCall(i, f) =>
                    \E k \in (i + 1)..(j - 1) : log[k].ran /\ log[k].xargs = log[i].args)
                => log[j].armed # 0)

\* The queue is idle after three executions, the third of a call that was
\* submitted when the first two had been executed and no timer was pending.
QueueDrainsToIdleWitness ==
    \E f \in Direct("queue"), j \in DOMAIN log :
        /\ Idle(f) /\ Len(Executed(f)) = 3
        /\ IsCall(j, f) /\ ~TimerActive(f, j)
        /\ Cardinality({k \in 1..(j - 1) : log[k].ran}) = 2

LatestCall(f, j, k) ==
    /\ j < k /\ IsCall(j, f)
    /\ \A i \in (j + 1)..(k - 1) : ~IsCall(i, f)

(* C24 - debounce delay is relative to the latest invocation: every        *)
(* execution of the base callable happens exactly one interval after the   *)
(* most recent invocation of the debounced callable (never sooner, and not *)
(* one interval after the first invocation of the burst), and the timer    *)
(* pending after the last invocation is due one interval after it.         *)
DebounceRelativeDelay ==
    \A f \in Direct("debounce") :
        LET T == Delay(insts[fns[f].inst].params[1])
        IN  /\ \A k \in Execs(f) : \E j \in 1..(k - 1) :
                /\ LatestCall(f, j, k)
                /\ log[k].tid = log[j].armed
                /\ log[k].at = log[j].at + T
            /\ \A j \in DOMAIN log : LatestCall(f, j, Len(log) + 1) =>
                \A t \in Pending(f) : t.id = log[j].armed /\ t.due = log[j].at + T

\* A burst of two invocations at different instants, the second before the
\* timer of the first expired; the base callable ran one interval after the
\* second one.
DebounceRelativeDelayWitness ==
    \E f \in Direct("debounce"), i, j, k \in DOMAIN log :
        /\ i < j /\ j < k
        /\ IsCall(i, f) /\ IsCall(j, f) /\ log[i].at < log[j].at
        /\ ~Fired(log[i].armed, i, j)
        /\ log[k].ran /\ log[k].tid = log[j].armed
        /\ log[k].at > log[i].at + Delay(insts[fns[f].inst].params[1])

(* C25 - deprecate warns once: a callable made by base.decorate(           *)
(* 'deprecate', message) logs the warning at its first invocation and at   *)
(* no later one unless eachCall was given as true, in which case it logs   *)
(* at every invocation; every invocation executes the base callable with   *)
(* its own arguments and context and passes on what it returns or raises.  *)
DeprecateWarnsOnce ==
    \A f \in ByName("deprecate"), j \in DOMAIN log :
        IsCall(j, f) =>
            LET e == log[j]
                base == method(e.ctx, e.args)
                eachCall == Len(fns[f].args) >= 2 /\ fns[f].args[2] = Bool(TRUE)
                first == \A i \in 1..(j - 1) : ~IsCall(i, f)
            IN  /\ e.ran /\ e.xargs = e.args /\ e.xctx = e.ctx
                /\ e.threw = base.threw /\ e.ret = base.value
                /\ e.logs = IF eachCall \/ first THEN 1 ELSE 0

(* C26 - instance isolation: two callables decorated with the closures of  *)
(* two separate calls of a timing factory share no state: an invocation of *)
(* one, or the expiry of one's timer, leaves the other's closure (timer    *)
(* handle, pending calls) and pending timers as they were; so a throttled  *)
(* callable executes whenever no timer of its own is active, whatever the  *)
(* other one is doing.                                                     *)
InstanceIsolation ==
    /\ [][\A f \in DOMAIN fns :
            (log' # log /\ log'[Len(log')].f # f) =>
                /\ insts'[fns[f].inst] = insts[fns[f].inst]
                /\ Pending(f)' = Pending(f)]_vars
    /\ [](\A f \in Direct("throttle"), j \in DOMAIN log :
            (IsCall(j, f) /\ ~TimerActive(f, j)) => log[j].ran)

\* A throttled callable was executed while the timer of the other one, set
\* by an earlier invocation, had not expired.
InstanceIsolationWitness ==
    \E f, g \in Direct("throttle"), i, j \in DOMAIN log :
        /\ f # g /\ i < j
        /\ IsCall(i, f) /\ log[i].armed # 0
        /\ IsCall(j, g) /\ ~Fired(log[i].armed, i, j) /\ log[j].ran

\* The factory registered under name when the event at position j happened:
\* that of the latest add before j, or what the loaded library holds.
BoundAt(name, j) ==
    LET before == {k \in Adds(name) : k < j}
    IN  IF before = {} THEN Loaded.Collection[name]
        ELSE log[CHOOSE k \in before : \A i \in before : i <= k].decorator

(* C27 - late binding of names: a callable made by base.decorate(name,     *)
(* ...) uses at each invocation the factory registered under the name at   *)
(* that moment: made while the name is not registered, it raises without   *)
(* executing the base callable until the name is added, applies the added  *)
(* factory from then on, and applies another factory from the next         *)
(* invocation on once the name is registered again with that one.          *)
LateBinding ==
    \A f \in DOMAIN fns, j \in DOMAIN log :
        (fns[f].byName /\ IsCall(j, f)) =>
            LET e == log[j]
                bound == BoundAt(fns[f].name, j)
                base == method(e.ctx, e.args)
            IN  IF bound = "undefined" THEN e.threw /\ ~e.ran
                ELSE /\ e.ran /\ e.xargs = e.args /\ e.xctx = e.ctx
                     /\ e.threw = base.threw
                     /\ ~base.threw =>
                            e.ret = IF bound = "dummyDecorator" THEN base.value
                                    ELSE Num(base.value.n * fns[f].args[1].n)

\* The callable raised before its name was registered, returned the base
\* callable's result after a first registration and twice that result after
\* a second one.
LateBindingWitness ==
    \E f \in DOMAIN fns, i, j, k \in DOMAIN log :
        /\ i < j /\ j < k
        /\ IsCall(i, f) /\ log[i].threw /\ ~log[i].ran
        /\ IsCall(j, f) /\ ~log[j].threw /\ log[j].ret = log[j].args[1]
        /\ IsCall(k, f) /\ ~log[k].threw /\ log[k].ret = Num(2 * log[k].args[1].n)
        /\ BoundAt(fns[f].name, j) # BoundAt(fns[f].name, k)

====
